---- MODULE Spec2Model ----
(***************************************************************************)
(* Model of the shopping-cart store of the React storefront                *)
(* (frontend/src/context/CartContext.jsx): the cartItems state, its copy   *)
(* in localStorage, the three effects of CartProvider and the handlers     *)
(* addToCart, updateQuantity, removeFromCart and clearCart, together with  *)
(* the cart calls of services/api.js that are in flight.                   *)
(*                                                                         *)
(* React keeps two views of the cart: the state last handed to            *)
(* setCartItems (cartItems) and the array captured by the closures of the  *)
(* last committed render (rendered), which is what the handlers read.      *)
(***************************************************************************)
EXTENDS Integers, Sequences, FiniteSets, TLC

\* ---------------------------------------------------------------- bounds
MaxQty == 2
MaxInflight == 2
\* Handler calls made in one browser task, before React renders again.
MaxBatch == 2

\* ------------------------------------------------------------- data model
\* A product carries the two identifier fields; 0 stands for a missing
\* (falsy) field.
ProductA == [_id |-> 1, id |-> 0, price |-> 10]
ProductB == [_id |-> 0, id |-> 1, price |-> 10]
ProductC == [_id |-> 2, id |-> 1, price |-> 5]
Products == {ProductA, ProductB, ProductC}

\* Mutant of ProductIdOf: only the _id field is read.
ProductIdOfPrimary(p) == p._id

\* The field product._id || product.id takes the key from.
KeyField(p) == IF p._id # 0 THEN "_id" ELSE "id"

\* product._id || product.id
ProductIdOf(p) == IF p._id # 0 THEN p._id ELSE p.id

ProductIds == {ProductIdOf(p) : p \in Products}

\* Quantities a caller passes to addToCart / updateQuantity.
QtyArgs == -1..MaxQty

\* Quantities a line of the model may hold (guard of the model, not of the
\* code).
LineQtys == 0..MaxQty

Line(p, q) == [product |-> p, quantity |-> q]

\* cartItems.findIndex(item => (item.product._id || item.product.id) === productId)
\* 0 stands for JavaScript's -1.
FindIndex(items, productId) ==
  IF \E i \in 1..Len(items) : ProductIdOf(items[i].product) = productId
  THEN CHOOSE i \in 1..Len(items) :
         /\ ProductIdOf(items[i].product) = productId
         /\ \A j \in 1..(i - 1) : ProductIdOf(items[j].product) # productId
  ELSE 0

\* Mutant of AddItems: the quantity of the existing line is overwritten.
AddItemsOverwriting(items, product, quantity) ==
  LET idx == FindIndex(items, ProductIdOf(product))
  IN IF idx > 0
     THEN [items EXCEPT ![idx].quantity = quantity]
     ELSE Append(items, Line(product, quantity))

\* Mutant of AddItems: a line is appended whether or not the product is there.
AddItemsAppending(items, product, quantity) ==
  Append(items, Line(product, quantity))

\* The new array addToCart builds from the array of its closure.
AddItems(items, product, quantity) ==
  LET idx == FindIndex(items, ProductIdOf(product))
  IN IF idx > 0
     THEN [items EXCEPT ![idx].quantity = @ + quantity]
     ELSE Append(items, Line(product, quantity))

\* Mutant of MapQuantity: an identifier that matches no line gets a new line.
MapQuantityUpserting(items, productId, quantity) ==
  IF \E i \in 1..Len(items) : ProductIdOf(items[i].product) = productId
  THEN [i \in 1..Len(items) |->
          IF ProductIdOf(items[i].product) = productId
          THEN [items[i] EXCEPT !.quantity = quantity]
          ELSE items[i]]
  ELSE Append(items,
              Line(CHOOSE p \in Products : ProductIdOf(p) = productId, quantity))

\* cartItems.map(item => key(item) === productId ? {...item, quantity} : item)
MapQuantity(items, productId, quantity) ==
  [i \in 1..Len(items) |->
     IF ProductIdOf(items[i].product) = productId
     THEN [items[i] EXCEPT !.quantity = quantity]
     ELSE items[i]]

\* Mutant of FilterOut: when no line matches, the first line is dropped.
FilterOutOrDropHead(items, productId) ==
  IF \E i \in 1..Len(items) : ProductIdOf(items[i].product) = productId
  THEN SelectSeq(items, LAMBDA item : ProductIdOf(item.product) # productId)
  ELSE IF items = <<>> THEN <<>> ELSE Tail(items)

\* cartItems.filter(item => key(item) !== productId)
RECURSIVE FilterOut(_, _)
FilterOut(items, productId) ==
  IF items = <<>> THEN <<>>
  ELSE IF ProductIdOf(Head(items).product) = productId
       THEN FilterOut(Tail(items), productId)
       ELSE <<Head(items)>> \o FilterOut(Tail(items), productId)

\* Mutant of GetCartTotal: the prices are summed without the quantities.
GetCartTotalOfPrices(items) ==
  IF items = <<>> THEN 0
  ELSE LET sum[i \in 0..Len(items)] ==
             IF i = 0 THEN 0 ELSE sum[i - 1] + items[i].product.price
       IN sum[Len(items)]

\* getCartTotal(): cartItems.reduce(
\*   (total, item) => total + item.product.price * item.quantity, 0)
RECURSIVE GetCartTotal(_)
GetCartTotal(items) ==
  IF items = <<>> THEN 0
  ELSE LET rest == SubSeq(items, 1, Len(items) - 1)
           item == items[Len(items)]
       IN GetCartTotal(rest) + item.product.price * item.quantity

\* Mutant of GetCartItemsCount: the lines are counted, not their units.
CountOfLines(items) == Len(items)

\* getCartItemsCount(): cartItems.reduce((count, item) => count + item.quantity, 0)
RECURSIVE GetCartItemsCount(_)
GetCartItemsCount(items) ==
  IF items = <<>> THEN 0
  ELSE Head(items).quantity + GetCartItemsCount(Tail(items))

\* JSON.stringify(cartItems): the text is modelled as the sequence of the
\* serialised fields of each line.
JSONStringify(items) ==
  [i \in 1..Len(items) |->
     <<items[i].product._id, items[i].product.id, items[i].product.price,
       items[i].quantity>>]

\* JSON.parse(storedCart)
JSONParse(text) ==
  [i \in 1..Len(text) |->
     Line([_id |-> text[i][1], id |-> text[i][2], price |-> text[i][3]],
          text[i][4])]

\* localStorage entry 'cart': <<>> when the key is absent, <<text>> when set.
Absent == <<>>
Stored(text) == <<text>>

\* What GET /cart may answer with: response.data.items, <<>> when the field
\* is missing and <<items>> when it is there.
RemoteItems ==
  { <<>>,
    <<Line(ProductC, 2)>>,
    <<Line(ProductB, 1), Line(ProductC, 1)>> }
Payloads == {<<>>} \cup {<<r>> : r \in RemoteItems}

\* response.data.items || []
ItemsOrEmpty(payload) == IF payload = <<>> THEN <<>> ELSE payload[1]

Kinds == {"get", "add", "update", "remove"}

\* The localStorage entries of the session.
AuthKeys == {"token", "user"}

\* The session a page starts with: authenticated when the entries of a login
\* are in localStorage.
SessionOf(entries) == entries = AuthKeys

\* Mutant of Intercepted: only the token is removed.
InterceptedTokenOnly(entries, unauthorized) ==
  IF unauthorized THEN entries \ {"token"} ELSE entries

\* The response interceptor's error branch: on status 401 the entries
\* 'token' and 'user' are removed (and the page is sent to /login); the
\* error is rejected to the caller in every case.
Intercepted(entries, unauthorized) ==
  IF unauthorized THEN (entries \ {"token"}) \ {"user"} ELSE entries
NoCalls == [k \in Kinds |-> 0]
Outstanding(calls) ==
  calls["get"] + calls["add"] + calls["update"] + calls["remove"]


\* ------------------------------------------------------------------ state
VARIABLES
  cartItems,        \* useState([]): the state last handed to setCartItems
  rendered,         \* the cartItems array the handlers of the last render hold
  dirty,            \* setCartItems was called since the last committed render
  batch,            \* handler calls of the running task, not yet rendered
  loading,          \* useState(false)
  shouldOpenCart,   \* useState(false)
  isAuthenticated,  \* useAuth().isAuthenticated as of the last render
  storage,          \* localStorage entry 'cart'
  inflight,         \* cartAPI calls awaited by a handler or by fetchCart
  phase,            \* which effect of the mount runs next, or "mounted"
  showCart,         \* Navbar: useState(false), the cart drawer is shown
  authEntries,      \* which of the localStorage entries 'token', 'user' exist
  loaded,           \* history: the cart the last reload has to bring back
  edited,           \* history: addToCart, updateQuantity or removeFromCart
                    \* was called since the fetch in flight was dispatched
  cleared,          \* history: "cleared" since clearCart, "reloaded" once a
                    \* page load of an anonymous session followed it
  last              \* history: the step just taken, its arguments and result

vars == <<cartItems, rendered, dirty, batch, loading, shouldOpenCart, isAuthenticated,
          storage, inflight, phase, showCart, authEntries, loaded, edited,
          cleared, last>>

NotLoaded == [set |-> FALSE, cart |-> <<>>]

\* result: "none" while the handler has not returned, "ok" for
\* {success: true}, "fail" for {success: false, error}; for a render,
\* "opened" when its commit ran Navbar's auto-open effect on a true flag.
\* id: the productId of the product handed to addToCart, or the one handed
\* to updateQuantity / removeFromCart (0 for every other step); delegated: updateQuantity returned removeFromCart(productId);
\* again: the call repeats the removeFromCart(productId) of the step before.
\* field: the field of the product handed to addToCart that gave its key.
Called(op, result, id, delegated, again) ==
  [op |-> op, result |-> result, id |-> id, delegated |-> delegated,
   again |-> again, field |-> "none"]
Event(op, result) == Called(op, result, 0, FALSE, FALSE)
Step(op) == Event(op, "none")

Init ==
  /\ cartItems = <<>>
  /\ rendered = <<>>
  /\ dirty = FALSE
  /\ batch = 0
  /\ loading = FALSE
  /\ shouldOpenCart = FALSE
  /\ isAuthenticated \in BOOLEAN
  /\ authEntries = IF isAuthenticated THEN AuthKeys ELSE {}
  /\ storage = Absent
  /\ inflight = NoCalls
  /\ phase = "effect1"
  /\ showCart = FALSE
  /\ edited = FALSE
  /\ cleared = "no"
  /\ loaded = IF isAuthenticated THEN NotLoaded ELSE [set |-> TRUE, cart |-> <<>>]
  /\ last = Step("create")

Mounted == phase = "mounted"

\* A handler runs inside a click's task; React renders the state it set when
\* that task ends, before the browser runs any other task (a response, a
\* login or logout, a page load). Until then only the same task can call
\* further handlers, and they still hold the closures of the last render.
InHandlerTask == batch > 0
CanCall == Mounted /\ batch < MaxBatch
Dispatch(calls, kind) == [calls EXCEPT ![kind] = @ + 1]
Settle(calls, kind) == [calls EXCEPT ![kind] = @ - 1]
CanDispatch == Outstanding(inflight) < MaxInflight

\* ---------------------------------------------------------------- effects
\* Mutant of LoadedItems: the stored cart is not read.
LoadedItemsIgnoringStorage(entry, current) == current

\* Effect 1: load the cart from localStorage on mount.
LoadedItems(entry, current) ==
  IF entry # Absent THEN JSONParse(entry[1]) ELSE current

Effect1 ==
  /\ phase = "effect1"
  /\ cartItems' = LoadedItems(storage, cartItems)
  /\ dirty' = (storage # Absent)
  /\ phase' = "effect2"
  /\ last' = Step("effect1")
  /\ UNCHANGED <<rendered, batch, loading, shouldOpenCart, isAuthenticated,
                 storage, inflight, showCart, authEntries, loaded,
                 edited, cleared>>

\* Effect 2: localStorage.setItem('cart', JSON.stringify(cartItems)), with the
\* cartItems of the render the effect belongs to.
\* Mutant of Persisted: the empty array is written whatever the cart holds.
PersistedEmpty(items) == Stored(<<>>)

Persisted(items) == Stored(JSONStringify(items))

Effect2 ==
  /\ phase = "effect2"
  /\ storage' = Persisted(rendered)
  /\ phase' = "effect3"
  /\ last' = Step("effect2")
  /\ UNCHANGED <<cartItems, rendered, dirty, batch, loading, shouldOpenCart,
                 isAuthenticated, inflight, showCart, authEntries, loaded,
                 edited, cleared>>

\* Mutant of FetchStarts: the cart is fetched on every change of the session.
FetchStartsAlways(authenticated) == TRUE

\* Effect 3 (fetchCart) up to its await: nothing unless authenticated.
FetchStarts(authenticated) == authenticated

Effect3 ==
  /\ phase = "effect3"
  /\ IF FetchStarts(isAuthenticated)
     THEN /\ loading' = TRUE
          /\ inflight' = Dispatch(inflight, "get")
     ELSE UNCHANGED <<loading, inflight>>
  /\ phase' = "mounted"
  /\ last' = Step("effect3")
  /\ UNCHANGED <<cartItems, rendered, dirty, batch, shouldOpenCart,
                 isAuthenticated, storage, showCart, authEntries, loaded,
                 edited, cleared>>

\* Mutant of DepsChanged: the effect has no dependency array and runs after
\* every render.
DepsChangedAlways(previous, current) == TRUE

\* useEffect(..., [isAuthenticated]): after a re-render the effect runs when
\* the value differs from the one of the render before.
DepsChanged(previous, current) == previous # current

\* Mutant of FlagAfterOpening: the flag is left as it is.
FlagKept(flag) == flag

\* Navbar's auto-open effect, run by the commit of a render that sees
\* shouldOpenCart true: setShowCart(true); setShouldOpenCart(false).
ShownAfterOpening(flag, shown) == IF flag THEN TRUE ELSE shown
FlagAfterOpening(flag) == IF flag THEN FALSE ELSE flag

\* A committed re-render: the closures now hold the current state, Effect 2
\* runs when cartItems is a new array, Effect 3 when isAuthenticated differs
\* from the previous render and Navbar's effect when shouldOpenCart does.
Commit(op, authenticated) ==
  /\ Mounted
  /\ rendered' = cartItems
  /\ dirty' = FALSE
  /\ batch' = 0
  /\ storage' = IF dirty THEN Persisted(cartItems) ELSE storage
  /\ isAuthenticated' = authenticated
  /\ IF DepsChanged(isAuthenticated, authenticated) /\ FetchStarts(authenticated)
     THEN /\ loading' = TRUE
          /\ inflight' = Dispatch(inflight, "get")
          /\ edited' = FALSE
     ELSE /\ UNCHANGED <<loading, inflight>>
          /\ edited' = (edited /\ inflight["get"] > 0)
  /\ loaded' = IF authenticated THEN NotLoaded ELSE loaded
  /\ showCart' = ShownAfterOpening(shouldOpenCart, showCart)
  /\ shouldOpenCart' = FlagAfterOpening(shouldOpenCart)
  /\ last' = Event(op, IF shouldOpenCart THEN "opened" ELSE "none")
  /\ UNCHANGED <<cartItems, phase, cleared>>

\* React renders again after setCartItems or setShouldOpenCart(true).
Render ==
  /\ dirty \/ shouldOpenCart
  /\ Commit("render", isAuthenticated)
  /\ UNCHANGED authEntries

Login ==
  /\ ~InHandlerTask
  /\ ~isAuthenticated
  /\ CanDispatch
  /\ Commit("login", TRUE)
  /\ authEntries' = AuthKeys

Logout ==
  /\ ~InHandlerTask
  /\ isAuthenticated
  /\ Commit("logout", FALSE)
  /\ authEntries' = {}

\* A full page load creates the store again: fresh React state, the calls of
\* the old page are gone, localStorage stays. The session the new page
\* finds is decided outside the store. The three effects of a mount run in
\* one task, so a page load does not fall between them.
Expect(items) == [set |-> TRUE, cart |-> items]

Reload ==
  \E authenticated \in BOOLEAN :
    /\ authenticated = SessionOf(authEntries)
    /\ Mounted
    /\ ~InHandlerTask
    /\ cartItems' = <<>>
    /\ rendered' = <<>>
    /\ dirty' = FALSE
    /\ batch' = 0
    /\ loading' = FALSE
    /\ shouldOpenCart' = FALSE
    /\ isAuthenticated' = authenticated
    /\ inflight' = NoCalls
    /\ phase' = "effect1"
    /\ showCart' = FALSE
    /\ edited' = FALSE
    /\ cleared' = IF cleared # "no" /\ ~authenticated THEN "reloaded" ELSE "no"
    /\ loaded' = IF authenticated \/ isAuthenticated THEN NotLoaded
                 ELSE IF storage = Absent THEN Expect(<<>>)
                 ELSE IF Mounted /\ ~dirty THEN Expect(cartItems)
                 ELSE NotLoaded
    /\ last' = Step("reload")
    /\ UNCHANGED <<storage, authEntries>>

\* --------------------------------------------------------------- handlers
\* Mutant of SyncsRemotely: the call is made without looking at the session.
SyncsAlways(authenticated) == TRUE

\* if (isAuthenticated) await cartAPI...
SyncsRemotely(authenticated) == authenticated

WithinModel(items) == \A i \in 1..Len(items) : items[i].quantity \in LineQtys

\* What awaiting the cart call does to the handler: with no call the handler
\* runs to its return.
Await(kind) ==
  IF SyncsRemotely(isAuthenticated)
  THEN /\ CanDispatch
       /\ inflight' = Dispatch(inflight, kind)
  ELSE UNCHANGED inflight

Returned == IF SyncsRemotely(isAuthenticated) THEN "none" ELSE "ok"

\* addToCart(product, quantity). newCartItems[existingItemIndex] is the very
\* object the closure's array holds, so the increment shows in that array
\* too.
AddToCart(product, quantity) ==
  LET newCartItems == AddItems(rendered, product, quantity)
      existing == FindIndex(rendered, ProductIdOf(product)) > 0
  IN /\ CanCall
     /\ WithinModel(newCartItems)
     /\ batch' = batch + 1
     /\ rendered' = IF existing THEN newCartItems ELSE rendered
     /\ cartItems' = newCartItems
     /\ dirty' = TRUE
     /\ Await("add")
     /\ shouldOpenCart' =
          IF SyncsRemotely(isAuthenticated) THEN shouldOpenCart ELSE TRUE
     /\ loaded' = NotLoaded
     /\ cleared' = "no"
     /\ edited' = (inflight["get"] > 0)
     /\ last' = [Called("add", Returned, ProductIdOf(product), FALSE, FALSE)
                   EXCEPT !.field = KeyField(product)]
     /\ UNCHANGED <<loading, isAuthenticated, storage, phase, showCart,
                    authEntries>>

\* removeFromCart(productId), also reached from updateQuantity.
Remove(op, productId) ==
  /\ CanCall
  /\ batch' = batch + 1
  /\ cartItems' = FilterOut(rendered, productId)
  /\ dirty' = TRUE
  /\ Await("remove")
  /\ loaded' = NotLoaded
  /\ last' = Called(op, Returned, productId, op = "update",
                    last.op = "remove" /\ last.id = productId /\ op = "remove")
  /\ cleared' = "no"
  /\ edited' = (inflight["get"] > 0)
  /\ UNCHANGED <<rendered, loading, shouldOpenCart, isAuthenticated, storage,
                 phase, showCart, authEntries>>

RemoveFromCart(productId) == Remove("remove", productId)

\* Mutant of DelegatesToRemove: only a negative quantity removes the line.
DelegatesWhenNegative(quantity) == quantity < 0

\* if (quantity <= 0) return removeFromCart(productId)
DelegatesToRemove(quantity) == quantity <= 0

\* updateQuantity(productId, quantity)
UpdateQuantity(productId, quantity) ==
  IF DelegatesToRemove(quantity)
  THEN Remove("update", productId)
  ELSE /\ CanCall
       /\ batch' = batch + 1
       /\ cartItems' = MapQuantity(rendered, productId, quantity)
       /\ dirty' = TRUE
       /\ Await("update")
       /\ loaded' = NotLoaded
       /\ last' = Called("update", Returned, productId, FALSE, FALSE)
       /\ cleared' = "no"
       /\ edited' = (inflight["get"] > 0)
       /\ UNCHANGED <<rendered, loading, shouldOpenCart, isAuthenticated,
                      storage, phase, showCart, authEntries>>

\* Mutant of ClearedCart: the lines of the closure's array are kept.
ClearedCartKeeping(closure) == closure

\* setCartItems([])
ClearedCart(closure) == <<>>

\* clearCart()
ClearCart ==
  /\ CanCall
  /\ batch' = batch + 1
  /\ cartItems' = ClearedCart(rendered)
  /\ dirty' = TRUE
  /\ storage' = Absent
  /\ loaded' = NotLoaded
  /\ cleared' = "cleared"
  /\ last' = Step("clear")
  /\ UNCHANGED <<rendered, loading, shouldOpenCart, isAuthenticated, inflight,
                 phase, showCart, authEntries, edited>>

\* ------------------------------------------------- answers of the service
FetchOutcomes == {"ok", "unsuccessful", "throw", "unauthorized"}

\* Mutant of FetchedCart: the server's lines are merged after the local ones.
FetchedCartMerging(current, outcome, payload) ==
  IF outcome = "ok" THEN current \o ItemsOrEmpty(payload) ELSE current

\* Mutant of FetchedCart: a failed fetch empties the cart.
FetchedCartClearing(current, outcome, payload) ==
  IF outcome = "ok" THEN ItemsOrEmpty(payload) ELSE <<>>

\* Mutant of FetchedCart: a cart that holds lines is not replaced.
FetchedCartUnlessLocal(current, outcome, payload) ==
  IF outcome = "ok" /\ current = <<>> THEN ItemsOrEmpty(payload) ELSE current

\* fetchCart after its await: only a response with success replaces the
\* cart.
FetchedCart(current, outcome, payload) ==
  IF outcome = "ok" THEN ItemsOrEmpty(payload) ELSE current

\* Mutant of LoadingAfterFetch: setLoading(false) is reached only when the
\* call did not throw.
LoadingAfterFetchUnlessThrown(current, outcome) ==
  IF outcome = "throw" THEN current ELSE FALSE

\* finally { setLoading(false) }
LoadingAfterFetch(current, outcome) == FALSE

FetchSettles(outcome, payload) ==
  /\ ~InHandlerTask
  /\ inflight["get"] > 0
  /\ inflight' = Settle(inflight, "get")
  /\ cartItems' = FetchedCart(cartItems, outcome, payload)
  /\ dirty' = (dirty \/ outcome = "ok")
  /\ loading' = LoadingAfterFetch(loading, outcome)
  /\ loaded' = NotLoaded
  /\ cleared' = IF outcome = "ok" THEN "no" ELSE cleared
  /\ authEntries' = Intercepted(authEntries, outcome = "unauthorized")
  /\ last' = Step(IF outcome = "ok" THEN "fetchOk"
                  ELSE IF outcome = "unauthorized" THEN "fetch401"
                  ELSE "fetchFail")
  /\ UNCHANGED <<rendered, batch, shouldOpenCart, isAuthenticated, storage,
                 phase, showCart, edited>>

FetchSucceeds == \E payload \in Payloads : FetchSettles("ok", payload)

FetchFails ==
  \E outcome \in FetchOutcomes \ {"ok"} : FetchSettles(outcome, <<>>)

\* Mutant of CartAfterCatch: the catch block rolls back to the array of the
\* closure.
CartRolledBack(current, closure) == closure

\* The catch blocks of the three handlers log and return; closure is the
\* cartItems array the handlers hold.
CartAfterCatch(current, closure) == current

\* The handler resumes after await cartAPI.addToCart / updateCartItem /
\* removeFromCart.
RemoteAnswers(kind, thrown, unauthorized) ==
  /\ ~InHandlerTask
  /\ inflight[kind] > 0
  /\ inflight' = Settle(inflight, kind)
  /\ cartItems' = IF thrown THEN CartAfterCatch(cartItems, rendered)
                  ELSE cartItems
  /\ shouldOpenCart' = IF kind = "add" /\ ~thrown THEN TRUE ELSE shouldOpenCart
  /\ authEntries' = Intercepted(authEntries, unauthorized)
  /\ last' = IF unauthorized THEN Event("remote401", "fail")
              ELSE IF thrown THEN Event("remoteFail", "fail")
              ELSE Event("remoteOk", "ok")
  /\ UNCHANGED <<rendered, dirty, batch, loading, isAuthenticated, storage,
                 phase, showCart, loaded, edited, cleared>>

RemoteSettles(kind, thrown) == RemoteAnswers(kind, thrown, FALSE)

\* The call is rejected with status 401.
RemoteUnauthorized == \E kind \in Kinds \ {"get"} : RemoteAnswers(kind, TRUE, TRUE)

RemoteSucceeds == \E kind \in Kinds \ {"get"} : RemoteSettles(kind, FALSE)

RemoteFails == \E kind \in Kinds \ {"get"} : RemoteSettles(kind, TRUE)

\* ----------------------------------------------------------------- Navbar
\* const cartCount = getCartItemsCount(), with the cartItems of the render.
cartCount == GetCartItemsCount(rendered)

\* toggleCart (the cart button, rendered for an authenticated user), and the
\* drawer's onClose when the drawer is shown: setShowCart(!showCart).
ToggleCart ==
  /\ Mounted
  /\ ~InHandlerTask
  /\ isAuthenticated \/ showCart
  /\ showCart' = ~showCart
  /\ last' = Step("toggle")
  /\ UNCHANGED <<cartItems, rendered, dirty, batch, loading, shouldOpenCart,
                 isAuthenticated, storage, inflight, phase, authEntries,
                 loaded, edited, cleared>>

\* -------------------------------------------------------------- behaviour
IdArgs == ProductIds

Add == \E product \in Products, quantity \in QtyArgs : AddToCart(product, quantity)
Update == \E productId \in IdArgs, quantity \in QtyArgs : UpdateQuantity(productId, quantity)
RemoveLine == \E productId \in IdArgs : RemoveFromCart(productId)

Next ==
  \/ Effect1
  \/ Effect2
  \/ Effect3
  \/ Render
  \/ Login
  \/ Logout
  \/ Reload
  \/ Add
  \/ Update
  \/ RemoveLine
  \/ ClearCart
  \/ FetchSucceeds
  \/ FetchFails
  \/ RemoteSucceeds
  \/ RemoteFails
  \/ RemoteUnauthorized
  \/ ToggleCart

Spec == Init /\ [][Next]_vars

\* ------------------------------------------------------------- properties
KeyAt(items, i) == ProductIdOf(items[i].product)
LinesFor(items, key) == {i \in 1..Len(items) : KeyAt(items, i) = key}
ClosureCurrent == rendered = cartItems
HandlerReturned ==
  last.op \in {"add", "update", "remove", "remoteOk", "remoteFail", "remote401"}

\* C1: addToCart(P, k), called on a cart that holds a line for P with
\* quantity q, leaves exactly one line for P, at the same position, with
\* quantity q + k and every other line as it was; on a cart with no line for
\* P it appends the line (P, k) at the end and keeps the lines before it.
C1_AddMergesOrAppends ==
  [][\A product \in Products, quantity \in QtyArgs :
       (AddToCart(product, quantity) /\ ClosureCurrent) =>
         LET key == ProductIdOf(product)
             old == LinesFor(cartItems, key)
         IN IF old # {}
            THEN /\ Len(cartItems') = Len(cartItems)
                 /\ LinesFor(cartItems', key) = old
                 /\ Cardinality(old) = 1
                 /\ \A i \in 1..Len(cartItems) :
                      cartItems'[i] =
                        IF i \in old
                        THEN Line(cartItems[i].product,
                                  cartItems[i].quantity + quantity)
                        ELSE cartItems[i]
            ELSE /\ Len(cartItems') = Len(cartItems) + 1
                 /\ cartItems'[Len(cartItems')] = Line(product, quantity)
                 /\ \A i \in 1..Len(cartItems) : cartItems'[i] = cartItems[i]
    ]_vars

\* An add has just merged into the second of two lines (the closure's array
\* shows the increment only in that case).
C1_Witness ==
  /\ last.op = "add"
  /\ ClosureCurrent
  /\ Len(cartItems) = 2
  /\ cartItems[2].quantity = 2
  /\ cartItems[1].quantity = 1

\* C2: a login starts one fetch of the remote cart, and when that fetch
\* succeeds with items R the cart is exactly R (empty when the response has
\* no items field): no line of the local cart is kept.
C2_FetchReplacesCart ==
  [][/\ Login => /\ inflight'["get"] = inflight["get"] + 1
                 /\ loading'
                 /\ cartItems' = cartItems
     /\ \A payload \in Payloads :
          FetchSettles("ok", payload) =>
            /\ payload # <<>> => cartItems' = payload[1]
            /\ payload = <<>> => cartItems' = <<>>
    ]_vars

\* The response [{C, 2}] has just replaced a local cart of other lines, which
\* the closures of the last render still show.
C2_Witness ==
  /\ last.op = "fetchOk"
  /\ cartItems = <<Line(ProductC, 2)>>
  /\ Len(rendered) = 2
  /\ KeyAt(rendered, 1) = 1
  /\ storage = Persisted(rendered)

\* C3: when the fetch started by a login fails (the call throws, or the
\* response has success false), the cart and the persisted copy are what
\* they were; the login itself changes neither, apart from writing a cart
\* that was still waiting to be persisted.
C3_FailedFetchKeepsCart ==
  [][/\ Login => /\ cartItems' = cartItems
                 /\ ~dirty => storage' = storage
     /\ \A outcome \in FetchOutcomes \ {"ok"} :
          FetchSettles(outcome, <<>>) =>
            /\ cartItems' = cartItems
            /\ storage' = storage
            /\ ~loading'
    ]_vars

\* A fetch has just failed with a non-empty local cart in memory and in
\* localStorage.
C3_Witness ==
  /\ last.op = "fetchFail"
  /\ isAuthenticated
  /\ cartItems # <<>>
  /\ ~dirty
  /\ storage = Persisted(cartItems)

\* C4: when the remote call of an add, updateQuantity or remove fails, the
\* cart keeps the state the optimistic update left: the failure changes
\* neither the cart nor its persisted copy.
C4_RemoteFailureKeepsCart ==
  [][\A kind \in Kinds \ {"get"} :
       RemoteSettles(kind, TRUE) =>
         /\ cartItems' = cartItems
         /\ storage' = storage
         /\ dirty' = dirty
    ]_vars

\* A remote call has just failed and the cart still holds a line.
C4_Witness ==
  /\ last.op = "remoteFail"
  /\ cartItems # <<>>
  /\ ~dirty
  /\ storage = Persisted(cartItems)

\* C5: a handler returns {success: true} whenever its optimistic update was
\* applied, also when its remote call fails. (No step of the model throws
\* before the update, so here the claim leaves no failure result at all.)
C5_HandlersReportSuccess ==
  (HandlerReturned /\ last.result # "none") => last.result = "ok"

\* C6: no two lines of the cart have the same normalized product identifier.
C6_NoDuplicateIds ==
  \A i, j \in 1..Len(cartItems) : i # j => KeyAt(cartItems, i) # KeyAt(cartItems, j)

\* An add has just been merged into the only line, a line whose product
\* carries its identifier in the id field.
C6_Witness ==
  /\ last.op = "add"
  /\ ClosureCurrent
  /\ cartItems = <<Line(ProductB, 2)>>

\* C7: every line of the cart has a quantity of at least 1.
C7_QuantitiesPositive ==
  \A i \in 1..Len(cartItems) : cartItems[i].quantity >= 1

\* C8: whenever the cart has been set and not yet rendered, the entry in
\* localStorage eventually holds the cart that is then in memory.
Mirrored == storage # Absent /\ JSONParse(storage[1]) = cartItems
C8_EventuallyPersisted == dirty ~> Mirrored

\* A change of the cart has been persisted while a remote call is pending.
C8_Witness ==
  /\ last.op = "render"
  /\ Mirrored
  /\ cartItems # <<>>
  /\ Outstanding(inflight) > 0

\* C9: once the store created by a page load of an anonymous session has
\* mounted and rendered, its cart is the cart the anonymous session before
\* the load had in memory, and the empty cart when localStorage had no entry.
C9_ReloadRestoresCart ==
  (loaded.set /\ Mounted /\ ~dirty) => cartItems = loaded.cart

\* A page load has brought back a cart of two lines.
C9_Witness ==
  /\ loaded.set
  /\ Mounted
  /\ ~dirty
  /\ last.op = "render"
  /\ Len(loaded.cart) = 2

\* C10: no step taken while isAuthenticated is false starts a remote call; a
\* handler called then leaves the calls in flight, loading and the session
\* alone and returns {success: true} at once.
C10_AnonymousStaysLocal ==
  [][/\ ~isAuthenticated' => \A kind \in Kinds : inflight'[kind] <= inflight[kind]
     /\ (~isAuthenticated /\ batch' = batch + 1) =>
          /\ inflight' = inflight
          /\ loading' = loading
          /\ ~isAuthenticated'
          /\ last'.op \in {"add", "update", "remove"} => last'.result = "ok"
    ]_vars

\* An anonymous add has just put a line in the cart; nothing is in flight.
C10_Witness ==
  /\ last.op = "add"
  /\ ~isAuthenticated
  /\ cartItems # <<>>
  /\ inflight = NoCalls
  /\ last.result = "ok"

\* The array without its i-th line.
Without(items, i) == SubSeq(items, 1, i - 1) \o SubSeq(items, i + 1, Len(items))

\* C11: updateQuantity(id, q) with q <= 0, called on a cart that holds a line
\* for id with quantity q0, does what removeFromCart(id) does: the cart has
\* no line for id afterwards, the item count is lower by exactly q0, the
\* other lines are as they were and in their order, and the remote call (if
\* any) is the remove call.
C11_NonPositiveUpdateRemoves ==
  [][\A productId \in IdArgs, quantity \in QtyArgs :
       ( /\ UpdateQuantity(productId, quantity)
         /\ quantity <= 0
         /\ ClosureCurrent
         /\ LinesFor(cartItems, productId) # {} ) =>
         LET i == CHOOSE k \in LinesFor(cartItems, productId) : TRUE
         IN /\ LinesFor(cartItems', productId) = {}
            /\ GetCartItemsCount(cartItems') =
                 GetCartItemsCount(cartItems) - cartItems[i].quantity
            /\ cartItems' = Without(cartItems, i)
            /\ inflight'["update"] = inflight["update"]
            /\ isAuthenticated => inflight'["remove"] = inflight["remove"] + 1
            /\ shouldOpenCart' = shouldOpenCart
    ]_vars

\* The minus button was pressed on a line of quantity 1, the first of two
\* lines: updateQuantity(id, 0) has removed it and kept the other line.
C11_Witness ==
  /\ last.op = "update"
  /\ last.delegated
  /\ batch = 1
  /\ Len(rendered) = 2
  /\ KeyAt(rendered, 1) = last.id
  /\ rendered[1].quantity = 1
  /\ cartItems = <<rendered[2]>>

\* C12: updateQuantity(id, q) with q > 0 and an id that matches no line
\* leaves the cart as it was (same lines, quantities and order) and does not
\* fail: no line is created, and an anonymous call returns {success: true}.
C12_UpdateOfAbsentIdIsNoOp ==
  [][\A productId \in IdArgs, quantity \in QtyArgs :
       ( /\ UpdateQuantity(productId, quantity)
         /\ quantity > 0
         /\ ClosureCurrent
         /\ LinesFor(cartItems, productId) = {} ) =>
         /\ cartItems' = cartItems
         /\ last'.result # "fail"
         /\ ~isAuthenticated => last'.result = "ok"
    ]_vars

\* updateQuantity with a positive quantity has just been called for an
\* identifier that no line of a non-empty cart carries.
C12_Witness ==
  /\ last.op = "update"
  /\ ~last.delegated
  /\ batch = 1
  /\ dirty
  /\ LinesFor(rendered, last.id) = {}
  /\ rendered # <<>>
  /\ cartItems = rendered

\* C13: removeFromCart(id) is idempotent: the cart a call leaves is the cart
\* a second call leaves, whether the second call comes from the same render
\* (the closures still hold the old array) or from the next one (they hold
\* the new array); a call that repeats the call before it, and a call for an
\* id that matches no line, leave the cart as it was, without a failure.
C13_RemoveIsIdempotent ==
  [][\A productId \in IdArgs :
       RemoveFromCart(productId) =>
         /\ FilterOut(rendered', productId) = cartItems'
         /\ FilterOut(cartItems', productId) = cartItems'
         /\ last'.again => cartItems' = cartItems
         /\ (ClosureCurrent /\ LinesFor(cartItems, productId) = {}) =>
              /\ cartItems' = cartItems
              /\ last'.result # "fail"
    ]_vars

\* removeFromCart(id) has just been called a second time in a row for a line
\* of a two-line cart: the first call removed it, the second changed nothing.
C13_Witness ==
  /\ last.op = "remove"
  /\ last.again
  /\ Len(rendered) = 2
  /\ LinesFor(rendered, last.id) # {}
  /\ Len(cartItems) = 1
  /\ LinesFor(cartItems, last.id) = {}

\* C14: clearCart starts no remote call, and once the render it causes has
\* committed (the last persistence step it triggers) the cart is empty and
\* localStorage has no entry for the cart.
C14_ClearLeavesNoEntry ==
  [][/\ ClearCart => inflight' = inflight
     /\ (Render /\ last.op = "clear") =>
          /\ cartItems' = <<>>
          /\ storage' = Absent
    ]_vars

\* C15: after clearCart followed by a page load of an anonymous session, the
\* store that the page load creates has the empty cart once Effect 1 has
\* read localStorage, and shows the empty cart once it has rendered.
C15_ClearThenReloadIsEmpty ==
  (cleared = "reloaded" /\ phase # "effect1") =>
    /\ cartItems = <<>>
    /\ (Mounted /\ ~dirty) => rendered = <<>>

\* The store created by a page load after clearCart has mounted and
\* rendered what Effect 1 read from the entry that the render after
\* clearCart wrote.
C15_Witness ==
  /\ cleared = "reloaded"
  /\ ~isAuthenticated
  /\ Mounted
  /\ last.op = "render"
  /\ storage = Stored(<<>>)

\* C16: a logout leaves the cart as it is, starts no remote call and does
\* not touch loading; the persisted copy stays as it is, or becomes the text
\* of that same cart when a change was still waiting for its render.
C16_LogoutKeepsCart ==
  [][Logout =>
       /\ cartItems' = cartItems
       /\ storage' = IF dirty THEN Stored(JSONStringify(cartItems)) ELSE storage
       /\ inflight' = inflight
       /\ loading' = loading
       /\ ~isAuthenticated'
    ]_vars

\* A logout has just left a cart of two lines in memory and in localStorage.
C16_Witness ==
  /\ last.op = "logout"
  /\ ~isAuthenticated
  /\ Len(cartItems) = 2
  /\ storage # Absent
  /\ JSONParse(storage[1]) = cartItems

\* The value and the units of the lines whose positions are in S, summed in
\* no particular order.
RECURSIVE ValueOf(_, _)
ValueOf(items, S) ==
  IF S = {} THEN 0
  ELSE LET i == CHOOSE k \in S : TRUE
       IN items[i].product.price * items[i].quantity + ValueOf(items, S \ {i})

RECURSIVE UnitsOf(_, _)
UnitsOf(items, S) ==
  IF S = {} THEN 0
  ELSE LET i == CHOOSE k \in S : TRUE
       IN items[i].quantity + UnitsOf(items, S \ {i})

\* C17: getCartTotal() is the sum over the lines of price times quantity, for
\* the cart in state and for the cart the last render shows (0 for the empty
\* cart); after addToCart(P, 1) on an empty cart it is P.price and the item
\* count is 1.
C17_TotalIsSumOfLineValues ==
  /\ [](/\ GetCartTotal(cartItems) = ValueOf(cartItems, DOMAIN cartItems)
        /\ GetCartTotal(rendered) = ValueOf(rendered, DOMAIN rendered)
        /\ cartItems = <<>> => GetCartTotal(cartItems) = 0)
  /\ [][\A product \in Products :
          (AddToCart(product, 1) /\ cartItems = <<>> /\ rendered = <<>>) =>
            /\ GetCartTotal(cartItems') = product.price
            /\ GetCartItemsCount(cartItems') = 1
       ]_vars

\* A cart of two lines with quantities 2 and 1 and prices 10 and 5 is shown:
\* its total is 25.
C17_Witness ==
  /\ Len(rendered) = 2
  /\ rendered[1].quantity = 2
  /\ rendered[1].product.price = 10
  /\ rendered[2] = Line(ProductC, 1)
  /\ GetCartTotal(rendered) = 25

\* C18: getCartItemsCount(), and so the badge of the navbar, is the sum of the
\* quantities of the lines, not the number of lines.
C18_CountIsSumOfQuantities ==
  /\ cartCount = UnitsOf(rendered, DOMAIN rendered)
  /\ GetCartItemsCount(cartItems) = UnitsOf(cartItems, DOMAIN cartItems)

\* The navbar shows 3 for a cart of two lines.
C18_Witness ==
  /\ Mounted
  /\ ~dirty
  /\ Len(rendered) = 2
  /\ cartCount = 3

\* C19: when an addToCart call returns, after its optimistic update, the
\* open-cart flag is true: for an anonymous call at once, for an
\* authenticated call when its remote call has succeeded or failed; no step
\* of updateQuantity, removeFromCart or clearCart sets the flag.
C19_EveryAddSetsFlag ==
  [][/\ \A product \in Products, quantity \in QtyArgs :
          (AddToCart(product, quantity) /\ ~isAuthenticated) => shouldOpenCart'
     /\ \A thrown \in BOOLEAN :
          RemoteSettles("add", thrown) => shouldOpenCart'
     /\ ( \/ \E productId \in IdArgs, quantity \in QtyArgs :
               UpdateQuantity(productId, quantity)
          \/ \E productId \in IdArgs : RemoveFromCart(productId)
          \/ ClearCart
          \/ \E kind \in {"update", "remove"}, thrown \in BOOLEAN :
               RemoteSettles(kind, thrown) ) =>
          shouldOpenCart' = shouldOpenCart
    ]_vars

\* C20: the open-cart flag is one-shot. A flag that is true becomes false
\* again; the commit of a render that sees it true shows the drawer and
\* resets it; only the return of an addToCart call sets it; and the drawer
\* goes from hidden to shown only by that effect or by the user's toggle, so
\* a drawer the user closed stays closed until an add sets the flag again.
Committed(op) == op \in {"render", "login", "logout"}
C20_FlagIsOneShot ==
  /\ shouldOpenCart ~> ~shouldOpenCart
  /\ [][/\ (Committed(last'.op) /\ shouldOpenCart) =>
             (showCart' /\ ~shouldOpenCart')
        /\ (shouldOpenCart /\ ~shouldOpenCart') =>
             (Committed(last'.op) \/ last'.op = "reload")
        /\ (~shouldOpenCart /\ shouldOpenCart') =>
             last'.op \in {"add", "remoteOk"}
        /\ (~showCart /\ showCart') =>
             (shouldOpenCart \/ last'.op = "toggle")
       ]_vars

\* The render after an add has just opened a hidden drawer and reset the
\* flag.
C20_Witness ==
  /\ last.op = "render"
  /\ last.result = "opened"
  /\ showCart
  /\ ~shouldOpenCart
  /\ cartItems # <<>>

QuantityOf(items, key) ==
  IF LinesFor(items, key) = {} THEN 0
  ELSE items[CHOOSE i \in LinesFor(items, key) : TRUE].quantity

\* C22: every call is applied to the cart the calls before it left: the cart
\* after addToCart, updateQuantity or removeFromCart is that operation
\* applied to the cart in state, whatever remote calls are still running,
\* and the completion or failure of a remote call changes nothing.
C22_CallsApplyInCallOrder ==
  [][/\ \A product \in Products, quantity \in QtyArgs :
          (AddToCart(product, quantity) /\ quantity >= 1) =>
            cartItems' = AddItems(cartItems, product, quantity)
     /\ \A productId \in IdArgs, quantity \in QtyArgs :
          UpdateQuantity(productId, quantity) =>
            cartItems' = IF quantity <= 0
                         THEN FilterOut(cartItems, productId)
                         ELSE MapQuantity(cartItems, productId, quantity)
     /\ \A productId \in IdArgs :
          RemoveFromCart(productId) => cartItems' = FilterOut(cartItems, productId)
     /\ \A kind \in Kinds \ {"get"}, thrown \in BOOLEAN :
          RemoteSettles(kind, thrown) => cartItems' = cartItems
    ]_vars

\* C23: an addToCart call that directly follows an addToCart call for the
\* same identifier (same closures, the first remote call still running)
\* leaves exactly one line for the identifier, and its quantity is the one
\* the first call left plus the quantity added now.
C23_OverlappingAddsBothCount ==
  [][\A product \in Products, quantity \in QtyArgs :
       ( /\ AddToCart(product, quantity)
         /\ quantity >= 1
         /\ last.op = "add"
         /\ last.id = ProductIdOf(product) ) =>
         LET key == ProductIdOf(product)
         IN /\ Cardinality(LinesFor(cartItems', key)) = 1
            /\ QuantityOf(cartItems', key) = QuantityOf(cartItems, key) + quantity
    ]_vars

\* C24: loading is true in every state in which a reconciliation fetch is
\* outstanding.
C24_LoadingWhileFetching == inflight["get"] > 0 => loading

\* C25: the step that dispatches a reconciliation fetch sets loading to true,
\* every response (success, unsuccessful response, thrown error) sets it to
\* false, and whenever no fetch is outstanding loading is false.
C25_LoadingEndsWithFetches ==
  /\ [](inflight["get"] = 0 => ~loading)
  /\ [][/\ inflight'["get"] > inflight["get"] => loading'
         /\ \A outcome \in FetchOutcomes, payload \in Payloads :
              FetchSettles(outcome, payload) => ~loading'
        ]_vars

\* The only outstanding fetch has just failed: loading is false again and the
\* cart is still there.
C25_Witness ==
  /\ last.op = "fetchFail"
  /\ isAuthenticated
  /\ inflight["get"] = 0
  /\ ~loading
  /\ cartItems # <<>>

\* C26: ProductA carries the value 1 in _id and ProductB carries it in id, so
\* they are the same line: addToCart of one merges into the line of the
\* other (which keeps its product and its place), and updateQuantity(1, q)
\* and removeFromCart(1) act on the line of either.
SameKey == {ProductA, ProductB}
C26_KeyUnifiesIdFields ==
  [][/\ \A product \in SameKey, quantity \in QtyArgs, i \in DOMAIN cartItems :
          ( /\ AddToCart(product, quantity)
            /\ ClosureCurrent
            /\ cartItems[i].product \in SameKey ) =>
            cartItems' = [cartItems EXCEPT ![i].quantity = @ + quantity]
     /\ \A quantity \in QtyArgs, i \in DOMAIN cartItems :
          ( /\ UpdateQuantity(ProductB.id, quantity)
            /\ quantity > 0
            /\ ClosureCurrent
            /\ cartItems[i].product \in SameKey ) =>
            cartItems' = [cartItems EXCEPT ![i].quantity = quantity]
     /\ \A i \in DOMAIN cartItems :
          ( /\ RemoveFromCart(ProductA._id)
            /\ ClosureCurrent
            /\ cartItems[i].product \in SameKey ) =>
            cartItems' = Without(cartItems, i)
    ]_vars

\* addToCart of ProductB, whose key comes from its id field, has just been
\* merged into the line of ProductA, whose key comes from _id.
C26_Witness ==
  /\ last.op = "add"
  /\ last.field = "id"
  /\ batch = 1
  /\ cartItems = <<Line(ProductA, 2)>>

C28_ResponseOverwritesLocalEdits ==
  [][\A payload \in Payloads :
       (FetchSettles("ok", payload) /\ edited) =>
         /\ cartItems' = ItemsOrEmpty(payload)
         /\ dirty'
    ]_vars

\* A response has just replaced a cart to which ProductA had been added
\* after the fetch was dispatched; the closures of the last render still
\* show that line.
C28_Witness ==
  /\ last.op = "fetchOk"
  /\ edited
  /\ cartItems = <<Line(ProductC, 2)>>
  /\ rendered = <<Line(ProductA, 1)>>

\* C29: a fetch response never changes the cart while authenticated is
\* false: a successful response that arrives after the user has logged out
\* leaves cartItems as it was.
C29_LateResponseIgnoredWhenLoggedOut ==
  [][\A payload \in Payloads :
       (FetchSettles("ok", payload) /\ ~isAuthenticated) =>
         cartItems' = cartItems
    ]_vars

\* C30: while the store is being created over a stored non-empty cart, no
\* step changes the 'cart' entry: the first run of Effect 2 does not write
\* the empty initial cart over it.
C30_MountKeepsStoredCart ==
  [][(/\ phase # "mounted"
      /\ storage # Absent
      /\ LoadedItems(storage, <<>>) # <<>>) =>
       storage' = storage
    ]_vars

\* React runs every render it has scheduled and every effect of a commit.
LiveSpec ==
  /\ Spec
  /\ WF_vars(Render)
  /\ WF_vars(Effect1)
  /\ WF_vars(Effect2)
  /\ WF_vars(Effect3)

====
